---- MODULE Spec2Model ----
(***************************************************************************)
(* Model of Dynasty: the walkers simulation engine (dynasty/walkers.py),   *)
(* the Qt-agnostic renderer's geometry assembly (dynasty/renderer.py) and  *)
(* the slot interface that drives both (dynasty/interfaces.py).            *)
(*                                                                         *)
(* Numbers.  The program computes with IEEE doubles; the model computes    *)
(* with integers.  A PRNG sample u in [0, 1) is g/16 for a generator state *)
(* g in 0..15; the comparison of the sparse mask is exact, and the values  *)
(* of rand_spread_array are rounded down to integers.  Parameters are      *)
(* drawn from small integer ranges.  Divisions of the force laws truncate  *)
(* toward zero.                                                            *)
(*                                                                         *)
(* Arrays are functions over 0..n-1 (NumPy indices); Python lists and the  *)
(* position history are sequences, snapshot t being element t+1.           *)
(* A Python attribute that may be None is None == <<>> or Some(v) == <<v>>.*)
(***************************************************************************)
EXTENDS Integers, Sequences, FiniteSets, TLC

\* ------------------------------------------------------------------ bounds
MaxCount == 3
MaxSpread == 2
MaxRelAvg == 1
MaxRelVar == 1
MaxIterations == 2
MaxReseeds == 1
MaxFrameCount == 2
MaxFrameIterations == 2
MaxRunCount == 3
MaxRunIterations == 3
MaxRunClock == 3

\* the range of the count slider starts at 2
Counts == 2..MaxCount
Spreads == 1..MaxSpread
RelAvgs == 0..MaxRelAvg
RelVars == 0..MaxRelVar
IterationCounts == 1..MaxIterations
\* values perf_counter_ns() may return after the engine was constructed at
\* clock 0 (its seeds are 0, 1 and 2)
ClockValues == 3..(2 + MaxReseeds)

\* ------------------------------------------------------------- optionals
None == << >>
Some(v) == <<v>>
Val(o) == o[1]

\* ------------------------------------------------------------ enumerations
POSITION == 0
VELOCITY == 1
NEWTON_LINEAR == 2
NEWTON == 3
ASYMETRY == 4
InterLaw == {POSITION, VELOCITY, NEWTON_LINEAR, NEWTON, ASYMETRY}

ONE_TO_ONE == 0
SPARSE == 1
MANY_TO_MANY == 2
RelModel == {ONE_TO_ONE, SPARSE, MANY_TO_MANY}

\* ------------------------------------------------------------------- PRNG
\* numpy.random.default_rng / Generator.random: a generator is its state;
\* a 16-state full-period congruential generator stands for PCG64.
RngModulus == 16

default_rng(seed) == (7 * seed + 1) % RngModulus

\* state of the generator after one more sample has been drawn
RngStep(g) == (5 * g + 3) % RngModulus

\* the sample in [0, 1) the generator in state g returns, times RngModulus
RngOutput(g) == g

RECURSIVE RngAdvance(_, _)
RngAdvance(g, k) == IF k = 0 THEN g ELSE RngAdvance(RngStep(g), k - 1)

\* Generator.random(shape): the flat array of size samples (each times
\* RngModulus), and the generator afterwards
random(g, size) ==
    [out |-> [k \in 0..(size - 1) |-> RngOutput(RngAdvance(g, k))],
     generator |-> RngAdvance(g, size)]

\* rand_spread_array: var * (2*rng.random(shape) - 1) + avg, flat, each
\* value rounded down
rand_spread_array(size, avg, var, g) ==
    LET r == random(g, size)
    IN [out |-> [k \in 0..(size - 1) |->
                    ((var * (2 * r.out[k] - RngModulus)) \div RngModulus) + avg],
        generator |-> r.generator]

\* SeedableRNG.__init__
SeedableRNG(seed) == [seed |-> seed, generator |-> default_rng(seed)]

\* reseed() without a seed keeps the running generator
reseed_no_restart(rng, seed) ==
    IF seed /= None THEN [seed |-> Val(seed), generator |-> default_rng(Val(seed))]
    ELSE rng

\* reseed() without a seed takes a new seed, as default_rng(None) would
reseed_forgets_seed(rng, seed) ==
    LET s == IF seed /= None THEN Val(seed) ELSE (rng.seed + 1) % RngModulus
    IN [seed |-> s, generator |-> default_rng(s)]

\* SeedableRNG.reseed(seed): seed is None or Some(value)
reseed(rng, seed) ==
    LET s == IF seed /= None THEN Val(seed) ELSE rng.seed
    IN [seed |-> s, generator |-> default_rng(s)]

\* ------------------------------------------------------------- parameters
\* SystemParameters defaults, in the model's number ranges: count 3,
\* spread 10, rel_avg .1 and iterations 10 are scaled to the top of their
\* range.
DefaultParams ==
    [count |-> MaxCount, spread |-> MaxSpread, inter_law |-> POSITION,
     rel_model |-> ONE_TO_ONE, rel_avg |-> MaxRelAvg, rel_var |-> 0,
     iterations |-> MaxIterations]

VARIABLES system, viewport, calls, raised, editor, heap

vars == <<system, viewport, calls, raised, editor, heap>>

\* GradientEditor.__init__: the editor of the rings gradient, which it
\* shares with the viewport's parameters; no stop is selected
GradientEditor == [selectedPos |-> None]

\* Parameter objects are held by reference. `params=SystemParameters()`
\* in the signature of WalkerSystem.__init__ is evaluated once, when the
\* def statement runs: DefaultParamsAt is the reference to that object.
DefaultParamsAt == 0

\* the objects and the engines made so far, beside the application's own:
\* the default parameters exist, no further engine does; caller is the
\* engine whose interface ran a slot last
NoEngines ==
    [objects |-> (DefaultParamsAt :> DefaultParams), instances |-> << >>,
     caller |-> 0]

\* the state a slot works on: the engine, the viewport, and the record of
\* the engine methods the slot has entered and whether an exception
\* propagated out of it
Here == [system |-> system, viewport |-> viewport,
         calls |-> << >>, raised |-> FALSE, editor |-> editor,
         heap |-> heap]

Enter(st, name) == [st EXCEPT !.calls = Append(@, name)]

Raise(st) == [st EXCEPT !.raised = TRUE]

\* ----------------------------------------------------------- WalkerSystem
\* WalkerSystem.__init__(params), the three seeds being clock + 0, 1, 2
WalkerSystem(params, clock) ==
    [params |-> params,
     rngs |-> [start_pos |-> SeedableRNG(clock),
               rel_mask |-> SeedableRNG(clock + 1),
               rel_matrix |-> SeedableRNG(clock + 2)],
     rel_mask |-> None, rel_matrix |-> None,
     start_pos |-> None, positions |-> None]

Walkers(n) == 0..(n - 1)

\* an (n, 3) array from its flat form
Points(flat, n) ==
    [i \in Walkers(n) |-> <<flat[3 * i], flat[3 * i + 1], flat[3 * i + 2]>>]

\* an (n, n) array from its flat form
Square(flat, n) == [i \in Walkers(n) |-> [j \in Walkers(n) |-> flat[n * i + j]]]

\* WalkerSystem.generate_start_pos; a negative count makes NumPy raise
generate_start_pos(st) ==
    IF st.raised THEN st
    ELSE
    LET s0 == Enter(st, "generate_start_pos")
        n == s0.system.params.count
        rng == reseed(s0.system.rngs.start_pos, None)
        s1 == [s0 EXCEPT !.system.rngs.start_pos = rng]
        r == rand_spread_array(3 * n, 0, 1, rng.generator)
    IN IF n < 0 THEN Raise(s1)
       ELSE [s1 EXCEPT !.system.rngs.start_pos.generator = r.generator,
                       !.system.start_pos = Some(Points(r.out, n))]

\* the identity rolled by -1 instead of 1
RolledEye_backwards(n) ==
    [i \in Walkers(n) |-> [j \in Walkers(n) |-> i = (j + 1) % n]]

\* np.roll(np.eye(n, dtype=bool), 1, axis=1)
RolledEye(n) == [i \in Walkers(n) |-> [j \in Walkers(n) |-> i = (j - 1) % n]]

\* rng.generator.random((n, n)) < (.25 + 1/n), the sample being
\* g / RngModulus: exactly 4 * n * g < RngModulus * (n + 4)
SparseTest(g, n) == 4 * n * g < RngModulus * (n + 4)

\* the diagonal left as generated
fill_diagonal_skipped(mask, v) == mask

\* np.fill_diagonal(mask, False)
fill_diagonal(mask, v) ==
    [i \in DOMAIN mask |-> [j \in DOMAIN mask[i] |-> IF i = j THEN v ELSE mask[i][j]]]

\* WalkerSystem.generate_relation_mask; a negative count makes NumPy raise,
\* and so does 1/n for the sparse model when the count is zero
generate_relation_mask(st) ==
    IF st.raised THEN st
    ELSE
    LET s0 == Enter(st, "generate_relation_mask")
        n == s0.system.params.count
        model == s0.system.params.rel_model
        rng == reseed(s0.system.rngs.rel_mask, None)
        s1 == [s0 EXCEPT !.system.rngs.rel_mask = rng]
        r == random(rng.generator, n * n)
    IN IF n < 0 \/ (n = 0 /\ model = SPARSE) THEN Raise(s1)
       ELSE IF model = ONE_TO_ONE
       THEN [s1 EXCEPT !.system.rel_mask = Some(fill_diagonal(RolledEye(n), FALSE))]
       ELSE IF model = SPARSE
       THEN [s1 EXCEPT !.system.rngs.rel_mask.generator = r.generator,
                       !.system.rel_mask =
                           Some(fill_diagonal(
                               Square([k \in 0..(n * n - 1) |-> SparseTest(r.out[k], n)], n),
                               FALSE))]
       ELSE [s1 EXCEPT !.system.rel_mask =
                           Some(fill_diagonal(
                               [i \in Walkers(n) |-> [j \in Walkers(n) |-> TRUE]], FALSE))]

\* the multiplication by the mask left out
TimesMask_unmasked(matrix, mask) == matrix

\* rel_matrix *= rel_mask, elementwise on arrays of one shape
TimesMask(matrix, mask) ==
    [i \in DOMAIN matrix |->
        [j \in DOMAIN matrix[i] |-> IF mask[i][j] THEN matrix[i][j] ELSE 0]]

\* WalkerSystem.generate_relation_matrix: the random array is assigned to
\* rel_matrix before it is multiplied by the mask, so it stays there when
\* the multiplication raises (mask None, or of another shape)
generate_relation_matrix(st) ==
    IF st.raised THEN st
    ELSE
    LET s0 == Enter(st, "generate_relation_matrix")
        p == s0.system.params
        n == p.count
        rng == reseed(s0.system.rngs.rel_matrix, None)
        s1 == [s0 EXCEPT !.system.rngs.rel_matrix = rng]
        r == rand_spread_array(n * n, p.rel_avg, p.rel_var, rng.generator)
        s2 == [s1 EXCEPT !.system.rngs.rel_matrix.generator = r.generator,
                         !.system.rel_matrix = Some(Square(r.out, n))]
        mask == s2.system.rel_mask
    IN IF n < 0 THEN Raise(s1)
       ELSE IF mask = None \/ DOMAIN Val(mask) /= Walkers(n) THEN Raise(s2)
       ELSE [s2 EXCEPT !.system.rel_matrix =
                           Some(TimesMask(Val(s2.system.rel_matrix), Val(mask)))]

\* ------------------------------------------------------------ compute_pos
Axes == 1..3

\* the float NaN, which 0 * inf yields: a value no finite entry of the
\* model takes
NaN == 0 - 2000000000

\* float +, -, *: NaN in, NaN out
Plus(x, y) == IF x = NaN \/ y = NaN THEN NaN ELSE x + y

Minus(x, y) == IF x = NaN \/ y = NaN THEN NaN ELSE x - y

Times(x, y) == IF x = NaN \/ y = NaN THEN NaN ELSE x * y

VAdd(a, b) == [x \in Axes |-> Plus(a[x], b[x])]

VSub(a, b) == [x \in Axes |-> Minus(a[x], b[x])]

VScale(k, a) == [x \in Axes |-> Times(k, a[x])]

VZero == [x \in Axes |-> 0]

\* the sum of the vectors f[j], j in the finite set S of indices
RECURSIVE VSum(_, _)
VSum(f, S) ==
    IF S = {} THEN VZero
    ELSE LET j == CHOOSE k \in S : TRUE IN VAdd(f[j], VSum(f, S \ {j}))

\* float division, truncated toward zero; NaN in, NaN out
TruncDiv(a, b) ==
    IF a = NaN \/ b = NaN THEN NaN
    ELSE IF a >= 0 THEN a \div b ELSE -((-a) \div b)

\* the integer part of the square root of s >= 0, sought in lo..hi
RECURSIVE SqrtIn(_, _, _)
SqrtIn(s, lo, hi) ==
    IF lo >= hi THEN lo
    ELSE LET mid == (lo + hi + 1) \div 2
         IN IF mid * mid <= s THEN SqrtIn(s, mid, hi) ELSE SqrtIn(s, lo, mid - 1)

SqrtBound == 46340

\* la.norm of one displacement vector
norm(v) ==
    LET s == Plus(Plus(Times(v[1], v[1]), Times(v[2], v[2])), Times(v[3], v[3]))
    IN IF s = NaN THEN NaN
       ELSE SqrtIn(s, 0, IF s < SqrtBound THEN s ELSE SqrtBound)

\* repeat_newaxis(array, n): n copies of array along a new outer axis
repeat_newaxis(array, n) == [k \in 0..(n - 1) |-> array]

\* the two first axes left as they are
swapaxes_skipped(tiled) == tiled

\* tiled.swapaxes(0, 1)
swapaxes(tiled) ==
    [i \in DOMAIN tiled[0] |-> [j \in DOMAIN tiled |-> tiled[j][i]]]

\* the two operands of tiled - tiled.swapaxes(0, 1), entry by entry: the
\* elements of the array (numbers, or points) that are subtracted
TiledOperands(array) ==
    IF DOMAIN array = {} THEN array
    ELSE LET tiled == repeat_newaxis(array, Cardinality(DOMAIN array))
             swapped == swapaxes(tiled)
         IN [i \in DOMAIN tiled |->
                [j \in DOMAIN tiled[i] |-> <<tiled[i][j], swapped[i][j]>>]]

\* diff_array(array), array of shape (n, 3)
diff_array(array) ==
    LET operands == TiledOperands(array)
    IN [i \in DOMAIN operands |->
           [j \in DOMAIN operands[i] |->
               VSub(operands[i][j][1], operands[i][j][2])]]

ForceConstant == 10000

\* one component c of a displacement of norm d, times 10**4 / d**(deg+1);
\* the division by d**(deg+1) is done one factor at a time
RECURSIVE OverPower(_, _, _)
OverPower(c, d, k) == IF k = 0 THEN c ELSE OverPower(TruncDiv(c, d), d, k - 1)

\* one component c of forces *= 10**4 / norms ** (deg+1), d the norm: at
\* distance zero the factor is inf and the component is zero, and 0 * inf
\* is NaN
ForceOverNorm(c, d, deg) ==
    IF c = NaN \/ d = NaN \/ d = 0 THEN NaN
    ELSE OverPower(ForceConstant * c, d, deg + 1)

\* np.nan_to_num left out
nan_to_num_skipped(c) == c

\* np.nan_to_num(forces, copy=False), on one component
nan_to_num(c) == IF c = NaN THEN 0 ELSE c

\* forces *= 10**4 / norms ** (deg+1), then np.nan_to_num
NewtonForces(forces, deg) ==
    [i \in DOMAIN forces |-> [j \in DOMAIN forces[i] |->
        LET d == norm(forces[i][j])
        IN [x \in Axes |-> nan_to_num(ForceOverNorm(forces[i][j][x], d, deg))]]]

DampingDivisor == 10

\* the einsum taken over the transposed weights: 'ji,ix->ix'
PositionStep_transposed(rels, pos) ==
    LET W == DOMAIN pos
    IN [i \in W |->
          VAdd(pos[i],
               VSub(VSum([j \in W |-> VScale(rels[i][j], pos[j])], W),
                    VSum([j \in W |-> VScale(rels[j][i], pos[i])], W)))]

\* pos += rels @ pos - np.einsum('ij,ix->ix', rels, pos)
PositionStep(rels, pos) ==
    LET W == DOMAIN pos
    IN [i \in W |->
          VAdd(pos[i],
               VSub(VSum([j \in W |-> VScale(rels[i][j], pos[j])], W),
                    VSum([j \in W |-> VScale(rels[i][j], pos[i])], W)))]

\* the second product not transposed: pos += rels @ pos - rels @ pos
AsymetryStep_untransposed(rels, pos) ==
    LET W == DOMAIN pos
    IN [i \in W |->
          VAdd(pos[i],
               VSub(VSum([j \in W |-> VScale(rels[i][j], pos[j])], W),
                    VSum([k \in W |-> VScale(rels[i][k], pos[k])], W)))]

\* the transposed weights applied to the walker's own position
AsymetryStep_own_position(rels, pos) ==
    LET W == DOMAIN pos
    IN [i \in W |->
          VAdd(pos[i],
               VSub(VSum([j \in W |-> VScale(rels[i][j], pos[j])], W),
                    VSum([k \in W |-> VScale(rels[k][i], pos[i])], W)))]

\* pos += rels @ pos - (pos.T @ rels).T
AsymetryStep(rels, pos) ==
    LET W == DOMAIN pos
    IN [i \in W |->
          VAdd(pos[i],
               VSub(VSum([j \in W |-> VScale(rels[i][j], pos[j])], W),
                    VSum([k \in W |-> VScale(rels[k][i], pos[k])], W)))]

\* the loop body with the velocity set back to zero at every pass
Step_velocity_reset(law, rels, pv) ==
    LET pos == pv.pos
        W == DOMAIN pos
    IN IF law = POSITION
       THEN [pos |-> PositionStep(rels, pos), vel |-> pv.vel]
       ELSE IF law = ASYMETRY
       THEN [pos |-> AsymetryStep(rels, pos), vel |-> pv.vel]
       ELSE LET diffs == diff_array(pos)
                scaled == IF law \in {NEWTON_LINEAR, NEWTON}
                          THEN NewtonForces(diffs, IF law = NEWTON THEN 2 ELSE 1)
                          ELSE diffs
                forces == [i \in W |-> [j \in W |-> VScale(rels[i][j], scaled[i][j])]]
                vel2 == [i \in W |->
                           VSum([j \in W |->
                                   [x \in Axes |-> TruncDiv(forces[i][j][x], DampingDivisor)]],
                                W)]
            IN [pos |-> [i \in W |-> VAdd(pos[i], vel2[i])], vel |-> vel2]

\* one pass of the loop body after the snapshot has been recorded
Step(law, rels, pv) ==
    LET pos == pv.pos
        vel == pv.vel
        W == DOMAIN pos
    IN IF law = POSITION
       THEN [pos |-> PositionStep(rels, pos), vel |-> vel]
       ELSE IF law = ASYMETRY
       THEN [pos |-> AsymetryStep(rels, pos), vel |-> vel]
       ELSE LET diffs == diff_array(pos)
                scaled == IF law \in {NEWTON_LINEAR, NEWTON}
                          THEN NewtonForces(diffs, IF law = NEWTON THEN 2 ELSE 1)
                          ELSE diffs
                forces == [i \in W |-> [j \in W |-> VScale(rels[i][j], scaled[i][j])]]
                vel2 == [i \in W |->
                           VAdd(vel[i],
                                VSum([j \in W |->
                                        [x \in Axes |-> TruncDiv(forces[i][j][x], DampingDivisor)]],
                                     W))]
            IN [pos |-> [i \in W |-> VAdd(pos[i], vel2[i])], vel |-> vel2]

\* the loop body updating the position before it records it
RECURSIVE Integrate_update_first(_, _, _, _, _)
Integrate_update_first(law, rels, pv, k, positions) ==
    IF k <= 0 THEN positions
    ELSE Integrate_update_first(law, rels, Step(law, rels, pv), k - 1,
                                Append(positions, Step(law, rels, pv).pos))

\* the loop of compute_pos: the list of snapshots after k more passes
RECURSIVE Integrate(_, _, _, _, _)
Integrate(law, rels, pv, k, positions) ==
    IF k <= 0 THEN positions
    ELSE Integrate(law, rels, Step(law, rels, pv), k - 1, Append(positions, pv.pos))

\* compute_pos working in place on the array of start_pos: the updates
\* of the loop reach start_pos
compute_pos_in_place(st) ==
    IF st.raised THEN st
    ELSE
    LET s0 == Enter(st, "compute_pos")
        p == s0.system.params
        start == s0.system.start_pos
        rels == s0.system.rel_matrix
        pos == [i \in DOMAIN Val(start) |-> VScale(p.spread, Val(start)[i])]
        vel == [i \in DOMAIN Val(start) |-> VZero]
    IN IF start = None THEN Raise(s0)
       ELSE IF p.iterations > 0 /\ (rels = None \/ DOMAIN Val(rels) /= DOMAIN Val(start))
       THEN Raise(s0)
       ELSE [s0 EXCEPT !.system.positions =
                Some(Integrate(p.inter_law, Val(rels), [pos |-> pos, vel |-> vel],
                               p.iterations, << >>)),
                       !.system.start_pos =
                Some(Integrate(p.inter_law, Val(rels), [pos |-> pos, vel |-> vel],
                               p.iterations + 1, << >>)[p.iterations + 1])]

\* compute_pos starting from start_pos, not from start_pos * spread
compute_pos_unscaled(st) ==
    IF st.raised THEN st
    ELSE
    LET s0 == Enter(st, "compute_pos")
        p == s0.system.params
        start == s0.system.start_pos
        rels == s0.system.rel_matrix
        vel == [i \in DOMAIN Val(start) |-> VZero]
    IN IF start = None THEN Raise(s0)
       ELSE IF p.iterations > 0 /\ (rels = None \/ DOMAIN Val(rels) /= DOMAIN Val(start))
       THEN Raise(s0)
       ELSE [s0 EXCEPT !.system.positions =
                Some(Integrate(p.inter_law, Val(rels), [pos |-> Val(start), vel |-> vel],
                               p.iterations, << >>))]

\* WalkerSystem.compute_pos: None * spread raises, and so does the first
\* pass of the loop when rel_matrix is None or of another shape
compute_pos(st) ==
    IF st.raised THEN st
    ELSE
    LET s0 == Enter(st, "compute_pos")
        p == s0.system.params
        start == s0.system.start_pos
        rels == s0.system.rel_matrix
        pos == [i \in DOMAIN Val(start) |-> VScale(p.spread, Val(start)[i])]
        vel == [i \in DOMAIN Val(start) |-> VZero]
    IN IF start = None THEN Raise(s0)
       ELSE IF p.iterations > 0 /\ (rels = None \/ DOMAIN Val(rels) /= DOMAIN Val(start))
       THEN Raise(s0)
       ELSE [s0 EXCEPT !.system.positions =
                Some(Integrate(p.inter_law, Val(rels), [pos |-> pos, vel |-> vel],
                               p.iterations, << >>))]

\* ---------------------------------------------------------------- colors
\* Gradient keys are stop positions in [0, 1], held in units of 1/KeyUnit
KeyUnit == 4

BLACK == <<0, 0, 0, 255>>

RED == <<255, 0, 0, 255>>

BLACK_TO_RED == (0 :> BLACK) @@ (KeyUnit :> RED)

\* the greatest key of the finite non-empty set K
MaxKey(K) == CHOOSE k \in K : \A m \in K : m <= k

MinKey(K) == CHOOSE k \in K : \A m \in K : k <= m

\* np.interp(x, keys * steps, values of one channel), rounded down by
\* astype('u1'); x is an output index, a key k lies at k * steps / KeyUnit
Interp(gradient, steps, x, channel) ==
    LET K == DOMAIN gradient
        xs == x * KeyUnit
        lo == MaxKey({k \in K : k * steps <= xs})
        hi == MinKey({k \in K : k * steps > xs})
        c0 == gradient[lo][channel]
        c1 == gradient[hi][channel]
    IN IF xs <= MinKey(K) * steps THEN gradient[MinKey(K)][channel]
       ELSE IF xs >= MaxKey(K) * steps THEN gradient[MaxKey(K)][channel]
       ELSE c0 + (((c1 - c0) * (xs - lo * steps)) \div ((hi - lo) * steps))

\* all_equals(len(c) for c in self.values())
UniformChannels(gradient) ==
    \A a, b \in DOMAIN gradient : Len(gradient[a]) = Len(gradient[b])

\* whether Gradient.generate(steps) raises: a failed assertion (stop
\* outside [0, 1], stops of different lengths), or no stop at all
GenerateRaises(gradient) ==
    \/ \E k \in DOMAIN gradient : k < 0 \/ k > KeyUnit
    \/ ~UniformChannels(gradient)
    \/ DOMAIN gradient = {}

\* Gradient.generate(steps): one color per output index 0..steps-1
generate(gradient, steps) ==
    [x \in 0..(steps - 1) |->
        [c \in 1..Len(gradient[MaxKey(DOMAIN gradient)]) |->
            Interp(gradient, steps, x, c)]]

\* SortedDict.bisect(pos): the number of keys at or before pos
bisect(gradient, pos) == Cardinality({k \in DOMAIN gradient : k <= pos})

\* SortedDict.peekitem(index): the stop at an index of the sorted keys,
\* a negative index counting from the end; None stands for IndexError
peekitem(gradient, index) ==
    LET K == DOMAIN gradient
        n == Cardinality(K)
        at == IF index < 0 THEN index + n ELSE index
    IN IF at < 0 \/ at >= n THEN None
       ELSE LET key == CHOOSE k \in K : Cardinality({m \in K : m < k}) = at
            IN Some(<<key, gradient[key]>>)

\* Gradient.endpoints, as the set of its keys
endpoints(gradient) ==
    IF DOMAIN gradient = {} THEN {}
    ELSE {Val(peekitem(gradient, 0))[1], Val(peekitem(gradient, 0 - 1))[1]}

\* Gradient.previous_stop(pos)
previous_stop(gradient, pos) == peekitem(gradient, bisect(gradient, pos) - 1)

\* Gradient.next_stop(pos)
next_stop(gradient, pos) == peekitem(gradient, bisect(gradient, pos))

\* |a - b|
Distance(a, b) == IF a >= b THEN a - b ELSE b - a

\* the comparison of the two distances turned around
PreviousIsNearer_reversed(prev, next, pos) ==
    IF prev = None THEN TRUE
    ELSE next /= None /\ Distance(Val(prev)[1], pos) >= Distance(Val(next)[1], pos)

\* abs(prev_pos - pos) <= abs(next_pos - pos), a missing stop lying at
\* -inf or +inf
PreviousIsNearer(prev, next, pos) ==
    IF prev = None THEN next = None
    ELSE next = None \/ Distance(Val(prev)[1], pos) <= Distance(Val(next)[1], pos)

\* Gradient.nearest_stop(pos)
nearest_stop(gradient, pos) ==
    IF DOMAIN gradient = {} THEN None
    ELSE LET prev_stop == previous_stop(gradient, pos)
             next_stop_ == next_stop(gradient, pos)
         IN IF PreviousIsNearer(prev_stop, next_stop_, pos) THEN prev_stop
            ELSE next_stop_

\* -------------------------------------------------------------- Renderer
\* the last index not repeated: the windows of (indexes[0], *indexes)
adjacent_lines_indexes_front_only(indexes) ==
    LET padded == <<indexes[1]>> \o indexes
    IN [k \in 1..(4 * (Len(padded) - 3)) |->
            padded[((k - 1) \div 4) + ((k - 1) % 4) + 1]]

\* adjacent_lines_indexes(indexes), for len(indexes) >= 2: the windows of
\* four of (indexes[0], *indexes, indexes[-1]), concatenated
adjacent_lines_indexes(indexes) ==
    LET padded == <<indexes[1]>> \o indexes \o <<indexes[Len(indexes)]>>
    IN [k \in 1..(4 * (Len(padded) - 3)) |->
            padded[((k - 1) \div 4) + ((k - 1) % 4) + 1]]

\* the concatenation of the sequences seqs[1], ..., seqs[Len(seqs)]
RECURSIVE Concat(_)
Concat(seqs) == IF seqs = << >> THEN << >> ELSE Head(seqs) \o Concat(Tail(seqs))

\* chunks(range(vertex_count), n): successive slices of length n
chunks(vertex_count, n) ==
    IF vertex_count = 0 THEN << >>
    ELSE [c \in 1..((vertex_count + n - 1) \div n) |->
            [k \in 1..(IF c * n <= vertex_count THEN n ELSE vertex_count - (c - 1) * n) |->
                (c - 1) * n + k - 1]]

\* the ring closed on the vertex that follows its last one
RingVerts_next(chunk, close_rings) ==
    IF close_rings THEN Append(chunk, chunk[Len(chunk)] + 1) ELSE chunk

\* the ring closed on its last vertex instead of its first
RingVerts_last(chunk, close_rings) ==
    IF close_rings THEN Append(chunk, chunk[Len(chunk)]) ELSE chunk

\* the vertices of one ring, closed when close_rings is set
RingVerts(chunk, close_rings) ==
    IF close_rings THEN Append(chunk, chunk[1]) ELSE chunk

\* list(range(i, vertex_count, walkers_count))
EdgeVerts(i, vertex_count, walkers_count) ==
    [k \in 1..((vertex_count - i + walkers_count - 1) \div walkers_count) |->
        i + (k - 1) * walkers_count]

\* the rings index list of compute_vertex_buffers
RingsIdx(vertex_count, walkers_count, close_rings) ==
    LET cs == chunks(vertex_count, walkers_count)
    IN Concat([c \in DOMAIN cs |-> adjacent_lines_indexes(RingVerts(cs[c], close_rings))])

\* the edges index list: the loop breaks at the first edge that has fewer
\* than two vertices, and all edges have the same length
EdgesIdx(vertex_count, walkers_count) ==
    IF walkers_count = 0 \/ Len(EdgeVerts(0, vertex_count, walkers_count)) < 2
    THEN << >>
    ELSE Concat([w \in 1..walkers_count |->
                    adjacent_lines_indexes(EdgeVerts(w - 1, vertex_count, walkers_count))])

\* whether compute_vertex_buffers raises before it writes any buffer:
\* positions is None or not of shape (iterations, count, 3), the gradient
\* cannot be sampled, or a ring has fewer than two vertices
BuffersRaise(positions, params) ==
    \/ positions = None
    \/ Len(Val(positions)) = 0
    \/ GenerateRaises(params.rings_gradient)
    \/ LET n == Cardinality(DOMAIN Val(positions)[1])
       IN n > 0 /\ Len(RingVerts(<<0>>, params.close_rings)) + n - 1 < 2

\* what compute_vertex_buffers writes to the VBOs and IBOs
Buffers(positions, params) ==
    LET pos == Val(positions)
        iterations == Len(pos)
        walkers_count == Cardinality(DOMAIN pos[1])
        vertex_count == iterations * walkers_count
    IN [vbos |->
            [pos |-> [v \in 0..(vertex_count - 1) |->
                         pos[(v \div walkers_count) + 1][v % walkers_count]],
             rings_colors |-> generate(params.rings_gradient, vertex_count),
             edges_colors |-> [v \in 0..(vertex_count - 1) |-> params.edges_color]],
        ibos |->
            [rings |-> RingsIdx(vertex_count, walkers_count, params.close_rings),
             edges |-> EdgesIdx(vertex_count, walkers_count)]]

\* what initialize_vertex_buffers leaves: buffers nothing was written to
EmptyBuffers ==
    [vbos |-> [pos |-> << >>, rings_colors |-> << >>, edges_colors |-> << >>],
     ibos |-> [rings |-> << >>, edges |-> << >>]]

\* RendererParams defaults
RendererParams ==
    [rings_gradient |-> BLACK_TO_RED, edges_color |-> BLACK,
     show_rings |-> TRUE, show_edges |-> TRUE, close_rings |-> TRUE]

\* Renderer.__init__ and initialize_vertex_buffers
Renderer ==
    [params |-> RendererParams, needs_vbo_update |-> TRUE,
     vbos |-> EmptyBuffers.vbos, ibos |-> EmptyBuffers.ibos]

\* Renderer.compute_vertex_buffers
compute_vertex_buffers(st) ==
    IF st.raised THEN st
    ELSE
    LET s0 == Enter(st, "compute_vertex_buffers")
        b == Buffers(s0.system.positions, s0.viewport.params)
    IN IF BuffersRaise(s0.system.positions, s0.viewport.params) THEN Raise(s0)
       ELSE [s0 EXCEPT !.viewport.vbos = b.vbos,
                       !.viewport.ibos = b.ibos,
                       !.viewport.needs_vbo_update = FALSE]

\* self.vaos.<name>.render(LINES_ADJACENCY): a draw call, when shown
Draw(st, shown, name) == IF st.raised \/ ~shown THEN st ELSE Enter(st, name)

\* Renderer.render_frame
render_frame_body(st) ==
    LET s1 == IF st.viewport.needs_vbo_update THEN compute_vertex_buffers(st) ELSE st
        s2 == Draw(s1, s1.viewport.params.show_rings, "rings.render")
    IN Draw(s2, s2.viewport.params.show_edges, "edges.render")

\* ------------------------------------------------------ ViewportInterface
\* ViewportInterface.updateVBOs
updateVBOs(st) ==
    IF st.raised THEN st ELSE [st EXCEPT !.viewport.needs_vbo_update = TRUE]

\* ViewportInterface.updatePos
updatePos(st) == updateVBOs(compute_pos(st))

\* ViewportInterface.updateRelMatrix
updateRelMatrix(st) == updatePos(generate_relation_matrix(st))

\* updateRelMask going straight to updatePos: the matrix is not regenerated
updateRelMask_skips_matrix(st) == updatePos(generate_relation_mask(st))

\* ViewportInterface.updateRelMask
updateRelMask(st) == updateRelMatrix(generate_relation_mask(st))

\* ViewportInterface.updateStartPos
updateStartPos(st) == updateRelMask(generate_start_pos(st))

\* what a slot leaves behind, whether it returned or raised
Commit(st) ==
    /\ system' = st.system
    /\ viewport' = st.viewport
    /\ calls' = st.calls
    /\ raised' = st.raised
    /\ editor' = st.editor
    /\ heap' = st.heap

reseedStartPos(t) ==
    Commit(updateStartPos(
               [Here EXCEPT !.system.rngs.start_pos = reseed(@, Some(t))]))

reseedRelMask(t) ==
    Commit(updateRelMask(
               [Here EXCEPT !.system.rngs.rel_mask = reseed(@, Some(t))]))

reseedRelMatrix(t) ==
    Commit(updateRelMatrix(
               [Here EXCEPT !.system.rngs.rel_matrix = reseed(@, Some(t))]))

setInterLaw(x) ==
    Commit(updatePos([Here EXCEPT !.system.params.inter_law = x]))

setRelModel(x) ==
    Commit(updateRelMask([Here EXCEPT !.system.params.rel_model = x]))

setCount(x) ==
    Commit(updateStartPos([Here EXCEPT !.system.params.count = x]))

\* setSpread starting from the first stage
setSpread_from_start(x) ==
    Commit(updateStartPos([Here EXCEPT !.system.params.spread = x]))

setSpread(x) ==
    Commit(updatePos([Here EXCEPT !.system.params.spread = x]))

setRelAvg(x) ==
    Commit(updateRelMatrix([Here EXCEPT !.system.params.rel_avg = x]))

setRelVar(x) ==
    Commit(updateRelMatrix([Here EXCEPT !.system.params.rel_var = x]))

setIterations(x) ==
    Commit(updatePos([Here EXCEPT !.system.params.iterations = x]))

setRingsDisplay(x) == Commit([Here EXCEPT !.viewport.params.show_rings = x])

setEdgesDisplay(x) == Commit([Here EXCEPT !.viewport.params.show_edges = x])

\* setClosedRings without the call of updateVBOs
setClosedRings_unflagged(x) ==
    Commit([Here EXCEPT !.viewport.params.close_rings = x])

setClosedRings(x) ==
    Commit(updateVBOs([Here EXCEPT !.viewport.params.close_rings = x]))

\* ---------------------------------------------------------- GradientEditor
\* the gradient without its stop at pos
WithoutStop(gradient, pos) == [k \in DOMAIN gradient \ {pos} |-> gradient[k]]

\* GradientEditor.setColorStop(pos, color) on the rings gradient, whose
\* gradientChanged signal is connected to ViewportInterface.updateVBOs:
\* self.gradient[pos] = color or self.gradient.nearest_stop(pos)[1].
\* Subscripting the None of an empty gradient raises.
setColorStop_body(st, pos, color) ==
    IF st.raised THEN st
    ELSE LET g == st.viewport.params.rings_gradient
             nearest == nearest_stop(g, pos)
         IN IF color = None /\ nearest = None THEN Raise(st)
            ELSE updateVBOs(
                     [st EXCEPT !.viewport.params.rings_gradient =
                          (pos :> (IF color = None THEN Val(nearest)[2] ELSE color)) @@ @])

setColorStop(pos, color) == Commit(setColorStop_body(Here, pos, color))

\* removeColorStop deleting the first and the last stop as any other
removeColorStop_any(st, pos) ==
    IF st.raised THEN st
    ELSE LET g == st.viewport.params.rings_gradient
             g2 == WithoutStop(g, pos)
         IN IF pos \notin DOMAIN g THEN Raise(st)
            ELSE IF st.editor.selectedPos = Some(pos) /\ DOMAIN g2 = {}
            THEN Raise([st EXCEPT !.viewport.params.rings_gradient = g2])
            ELSE updateVBOs(
                     [st EXCEPT !.viewport.params.rings_gradient = g2,
                                !.editor.selectedPos =
                                    IF @ = Some(pos)
                                    THEN Some(Val(nearest_stop(g2, pos))[1])
                                    ELSE @])

\* GradientEditor.removeColorStop(pos): a no-op on the first and the last
\* stop; del raises KeyError when there is no stop at pos
removeColorStop_body(st, pos) ==
    IF st.raised THEN st
    ELSE LET g == st.viewport.params.rings_gradient
             g2 == WithoutStop(g, pos)
         IN IF pos \in endpoints(g) THEN st
            ELSE IF pos \notin DOMAIN g THEN Raise(st)
            ELSE updateVBOs(
                     [st EXCEPT !.viewport.params.rings_gradient = g2,
                                !.editor.selectedPos =
                                    IF @ = Some(pos)
                                    THEN Some(Val(nearest_stop(g2, pos))[1])
                                    ELSE @])

removeColorStop(pos) == Commit(removeColorStop_body(Here, pos))

\* GradientEditor.moveColorStop(pos, newPos): pop raises KeyError when
\* there is no stop at pos
moveColorStop_body(st, pos, newPos) ==
    IF st.raised THEN st
    ELSE LET g == st.viewport.params.rings_gradient
         IN IF pos \notin DOMAIN g THEN Raise(st)
            ELSE updateVBOs(
                     [st EXCEPT !.viewport.params.rings_gradient =
                          (newPos :> g[pos]) @@ WithoutStop(g, pos)])

moveColorStop(pos, newPos) == Commit(moveColorStop_body(Here, pos, newPos))

\* GradientEditor._callback(color): setColorStop(self.selectedPos, color);
\* a key of None cannot be ordered among the stops
_callback(color) ==
    IF editor.selectedPos = None THEN Commit(Raise(Here))
    ELSE Commit(setColorStop_body(Here, Val(editor.selectedPos), color))

\* the widget is KeyUnit * PixelsPerKey pixels wide; events occur at the
\* pixels that are stop positions of the model's resolution
PixelsPerKey == 8

HandleRadius == 6

\* clamp(value, 0, 1), in units of 1/KeyUnit
clamp(value) ==
    IF value < 0 THEN 0 ELSE IF value > KeyUnit THEN KeyUnit ELSE value

\* GradientEditor.normalizePos(x): clamp(x / self.width())
normalizePos(x) == clamp(x \div PixelsPerKey)

\* GradientEditor.getHandlePosFromEvent: the position of the nearest stop
\* when it is less than 6 pixels away, otherwise None; the call is made
\* on a gradient that is not empty
getHandlePosFromEvent(st, x) ==
    LET pos == normalizePos(x)
        nearestPos == Val(nearest_stop(st.viewport.params.rings_gradient, pos))[1]
    IN IF Distance(nearestPos, pos) * PixelsPerKey < HandleRadius
       THEN Some(nearestPos) ELSE None

\* `if pos:` is false for None and for the position 0.0
Truthy(pos) == pos /= None /\ Val(pos) /= 0

\* GradientEditor.mousePressEvent
mousePressEvent(x) ==
    IF DOMAIN viewport.params.rings_gradient = {} THEN Commit(Raise(Here))
    ELSE LET pos == getHandlePosFromEvent(Here, x)
         IN IF Truthy(pos) THEN Commit([Here EXCEPT !.editor.selectedPos = pos])
            ELSE Commit(Here)

\* GradientEditor.mouseDoubleClickEvent
mouseDoubleClickEvent(x) ==
    IF DOMAIN viewport.params.rings_gradient = {} THEN Commit(Raise(Here))
    ELSE LET pos == getHandlePosFromEvent(Here, x)
             new == normalizePos(x)
             set == setColorStop_body(Here, new, None)
         IN IF Truthy(pos) THEN Commit(removeColorStop_body(Here, Val(pos)))
            ELSE Commit(IF set.raised THEN set
                        ELSE [set EXCEPT !.editor.selectedPos = Some(new)])

\* GradientEditor.mouseMoveEvent: `event.buttons() | Qt.LeftButton` is
\* true whatever the buttons are
mouseMoveEvent(x) ==
    IF editor.selectedPos = None THEN Commit(Here)
    ELSE LET pos == normalizePos(x)
             moved == moveColorStop_body(Here, Val(editor.selectedPos), pos)
         IN Commit(IF moved.raised THEN moved
                   ELSE [moved EXCEPT !.editor.selectedPos = Some(pos)])

\* Viewport.paintGL: Renderer.render_frame
render_frame == Commit(render_frame_body(Here))

\* ------------------------------------------------------------------ Init
\* Viewport(system=WalkerSystem()): Renderer.__init__ sets the dirty flag
Init ==
    /\ system = WalkerSystem(DefaultParams, 0)
    /\ viewport = Renderer
    /\ calls = << >>
    /\ raised = FALSE
    /\ editor = GradientEditor
    /\ heap = NoEngines

Next ==
    \/ \E t \in ClockValues : reseedStartPos(t)
    \/ \E t \in ClockValues : reseedRelMask(t)
    \/ \E t \in ClockValues : reseedRelMatrix(t)
    \/ \E x \in InterLaw : setInterLaw(x)
    \/ \E x \in RelModel : setRelModel(x)
    \/ \E x \in Counts : setCount(x)
    \/ \E x \in Spreads : setSpread(x)
    \/ \E x \in RelAvgs : setRelAvg(x)
    \/ \E x \in RelVars : setRelVar(x)
    \/ \E x \in IterationCounts : setIterations(x)

Spec == Init /\ [][Next]_vars

\* The engine driven through the interface together with the renderer: the
\* buffers keep the geometry of the frame they were last built for, so the
\* inputs of the slots are drawn from smaller sets.
FrameCounts == 1..MaxFrameCount
FrameIterations == 1..MaxFrameIterations
FrameColors == {BLACK, RED}

NextFrame ==
    \/ \E t \in {system.rngs.start_pos.seed} : reseedStartPos(t)
    \/ \E t \in {system.rngs.rel_mask.seed} : reseedRelMask(t)
    \/ \E t \in {system.rngs.rel_matrix.seed} : reseedRelMatrix(t)
    \/ \E x \in {POSITION} : setInterLaw(x)
    \/ \E x \in {ONE_TO_ONE} : setRelModel(x)
    \/ \E x \in FrameCounts : setCount(x)
    \/ \E x \in Spreads : setSpread(x)
    \/ \E x \in {MaxRelAvg} : setRelAvg(x)
    \/ \E x \in {0} : setRelVar(x)
    \/ \E x \in FrameIterations : setIterations(x)
    \/ \E x \in BOOLEAN : setRingsDisplay(x)
    \/ \E x \in BOOLEAN : setEdgesDisplay(x)
    \/ \E x \in BOOLEAN : setClosedRings(x)
    \/ \E pos \in {0} : \E color \in FrameColors : setColorStop(pos, color)
    \/ render_frame

SpecFrame == Init /\ [][NextFrame]_vars

\* The engine run as the script at the end of walkers.py runs it: a system
\* is constructed, then the four stages are called once each, in order.
\* The parameters and the construction clock are drawn from bounded sets.
RunParams ==
    [count : 1..MaxRunCount, spread : Spreads, inter_law : InterLaw,
     rel_model : RelModel, rel_avg : RelAvgs, rel_var : RelVars,
     iterations : 1..MaxRunIterations]

InitRun ==
    /\ \E p \in RunParams : \E clock \in 0..MaxRunClock :
           system = WalkerSystem(p, clock)
    /\ viewport = Renderer
    /\ calls = << >>
    /\ raised = FALSE
    /\ editor = GradientEditor
    /\ heap = NoEngines

RunStartPos ==
    /\ system.start_pos = None
    /\ Commit(generate_start_pos(Here))

RunRelationMask ==
    /\ system.start_pos /= None /\ system.rel_mask = None
    /\ Commit(generate_relation_mask(Here))

RunRelationMatrix ==
    /\ system.rel_mask /= None /\ system.rel_matrix = None
    /\ Commit(generate_relation_matrix(Here))

RunComputePos ==
    /\ system.rel_matrix /= None /\ system.start_pos /= None
    /\ system.positions = None
    /\ Commit(compute_pos(Here))

NextRun ==
    \/ RunStartPos
    \/ RunRelationMask
    \/ RunRelationMatrix
    \/ RunComputePos

SpecRun == InitRun /\ [][NextRun]_vars

\* The integration laws on their own: compute_pos called on an engine
\* whose start_pos and rel_matrix hold arbitrary bounded arrays.
MaxLawCount == 2

MaxLawCoord == 1

MaxLawWeight == 1

MaxLawIterations == 3

LawParams ==
    [count : 1..MaxLawCount, spread : Spreads, inter_law : InterLaw,
     rel_model : {ONE_TO_ONE}, rel_avg : {0}, rel_var : {0},
     iterations : {MaxLawIterations}]

InitLaw ==
    /\ \E p \in LawParams :
       \E start \in [Walkers(p.count) -> [Axes -> 0..MaxLawCoord]] :
       \E rels \in [Walkers(p.count) ->
                        [Walkers(p.count) -> (0 - MaxLawWeight)..MaxLawWeight]] :
           system = [WalkerSystem(p, 0) EXCEPT !.start_pos = Some(start),
                                               !.rel_matrix = Some(rels)]
    /\ viewport = Renderer
    /\ calls = << >>
    /\ raised = FALSE
    /\ editor = GradientEditor
    /\ heap = NoEngines

LawComputePos ==
    /\ system.positions = None
    /\ Commit(compute_pos(Here))

NextLaw == LawComputePos

SpecLaw == InitLaw /\ [][NextLaw]_vars

\* The geometry of a computed history: the four stages are run on an
\* engine with bounded parameters, the viewport has either value of
\* close_rings and a gradient with stops at 0, 1 and possibly 1/2, and a
\* frame is rendered.
MaxBufCount == 4

MaxBufIterations == 3

BufColors == {BLACK, RED}

BufGradients ==
    [{0, KeyUnit} -> BufColors] \cup [{0, KeyUnit \div 2, KeyUnit} -> BufColors]

BufParams ==
    [count : 0..MaxBufCount, spread : {1}, inter_law : {POSITION},
     rel_model : {ONE_TO_ONE}, rel_avg : {MaxRelAvg}, rel_var : {0},
     iterations : 1..MaxBufIterations]

\* the engine after the four stages have run once on WalkerSystem(p)
Pipeline(p) ==
    compute_pos(generate_relation_matrix(generate_relation_mask(
        generate_start_pos([system |-> WalkerSystem(p, 0), viewport |-> Renderer,
                            calls |-> << >>, raised |-> FALSE,
                            editor |-> GradientEditor])))).system

InitBuffers ==
    /\ \E p \in BufParams : system = Pipeline(p)
    /\ \E c \in BOOLEAN : \E g \in BufGradients :
           viewport = [Renderer EXCEPT !.params.close_rings = c,
                                       !.params.rings_gradient = g]
    /\ calls = << >>
    /\ raised = FALSE
    /\ editor = GradientEditor
    /\ heap = NoEngines

BufRenderFrame ==
    /\ viewport.needs_vbo_update
    /\ render_frame

NextBuffers == BufRenderFrame

SpecBuffers == InitBuffers /\ [][NextBuffers]_vars

\* The mutators called with values outside the documented ranges, on an
\* engine whose four stages have run: a count below 1, negative
\* iterations, a color stop of three channels in a gradient of four.
MinBadCount == 1

BadCounts == (0 - MinBadCount)..0

BadIterations == {0 - 1}

RGB_BLACK == <<0, 0, 0>>

BadColors == {RGB_BLACK}

RejectParams ==
    [count : 1..MaxFrameCount, spread : {1}, inter_law : {POSITION},
     rel_model : RelModel, rel_avg : {MaxRelAvg}, rel_var : {0},
     iterations : 1..MaxFrameIterations]

InitReject ==
    /\ \E p \in RejectParams : system = Pipeline(p)
    /\ \E c \in BOOLEAN : viewport = [Renderer EXCEPT !.params.close_rings = c]
    /\ calls = << >>
    /\ raised = FALSE
    /\ editor = GradientEditor
    /\ heap = NoEngines

SetBadCount == \E x \in BadCounts : setCount(x)

SetBadIterations == \E x \in BadIterations : setIterations(x)

SetBadColorStop ==
    \E pos \in {0, KeyUnit \div 2} : \E color \in BadColors : setColorStop(pos, color)

NextReject ==
    \/ SetBadCount
    \/ SetBadIterations
    \/ SetBadColorStop
    \/ render_frame

SpecReject == InitReject /\ [][NextReject]_vars

\* The gradient editor at work on the rings gradient: mouse events at
\* pixels inside and outside the widget, colors picked in the dialog, and
\* the three editing methods called with normalized positions.
Pixels == {k * PixelsPerKey : k \in (0 - 1)..(KeyUnit + 1)}

PickedColors == BufColors \cup {None}

InitEditor ==
    /\ system = WalkerSystem(DefaultParams, 0)
    /\ \E g \in BufGradients : viewport = [Renderer EXCEPT !.params.rings_gradient = g]
    /\ calls = << >>
    /\ raised = FALSE
    /\ editor = GradientEditor
    /\ heap = NoEngines

NextEditor ==
    \/ \E x \in Pixels : mousePressEvent(x)
    \/ \E x \in Pixels : mouseDoubleClickEvent(x)
    \/ \E x \in Pixels : mouseMoveEvent(x)
    \/ \E c \in BufColors : _callback(c)
    \/ \E x \in Pixels : \E c \in PickedColors : setColorStop(normalizePos(x), c)
    \/ \E x \in Pixels : removeColorStop(normalizePos(x))
    \/ \E x, y \in Pixels : moveColorStop(normalizePos(x), normalizePos(y))

SpecEditor == InitEditor /\ [][NextEditor]_vars

\* Engines constructed beside one another, with and without a params
\* argument, each under the viewport and the interface built on it
\* (Viewport(system=WalkerSystem()), app.py:39).
MaxEngines == 2

SharedParams == {[DefaultParams EXCEPT !.count = c] : c \in Counts}

\* perf_counter_ns() when the next engine is constructed
EngineClock == 3 * Len(heap.instances)

\* WalkerSystem(): self.params is the default object
NewWalkerSystem ==
    /\ Len(heap.instances) < MaxEngines
    /\ heap' = [heap EXCEPT
                    !.instances =
                        Append(@, [system |-> WalkerSystem(DefaultParamsAt, EngineClock),
                                   viewport |-> Renderer])]
    /\ UNCHANGED <<system, viewport, calls, raised, editor>>

\* WalkerSystem(SystemParameters(count=c)): self.params is a new object
NewWalkerSystemWith(p) ==
    LET at == Cardinality(DOMAIN heap.objects)
    IN /\ Len(heap.instances) < MaxEngines
       /\ heap' = [heap EXCEPT
                       !.objects = (at :> p) @@ @,
                       !.instances =
                           Append(@, [system |-> WalkerSystem(at, EngineClock),
                                      viewport |-> Renderer])]
       /\ UNCHANGED <<system, viewport, calls, raised, editor>>

\* self.system.params of the engine e, as its interface reads it
ParamsSeen(h, e) == h.objects[h.instances[e].system.params]

\* the state a slot of the interface of engine e works on
OnEngine(e) ==
    [Here EXCEPT !.system = [heap.instances[e].system EXCEPT
                                 !.params = ParamsSeen(heap, e)],
                 !.viewport = heap.instances[e].viewport]

\* what a slot of the interface of engine e leaves behind: the attribute
\* assignments went to the object self.system.params refers to
CommitOn(e, st) ==
    /\ heap' = [heap EXCEPT
                    !.objects[heap.instances[e].system.params] = st.system.params,
                    !.instances[e] =
                        [system |-> [st.system EXCEPT
                                         !.params = heap.instances[e].system.params],
                         viewport |-> st.viewport],
                    !.caller = e]
    /\ calls' = st.calls
    /\ raised' = st.raised
    /\ UNCHANGED <<system, viewport, editor>>

\* ViewportInterface.setCount of the interface of engine e
setCountOf(e, x) ==
    CommitOn(e, updateStartPos([OnEngine(e) EXCEPT !.system.params.count = x]))

\* ViewportInterface.setIterations of the interface of engine e
setIterationsOf(e, x) ==
    CommitOn(e, updatePos([OnEngine(e) EXCEPT !.system.params.iterations = x]))

InitShared ==
    /\ system = WalkerSystem(DefaultParams, 0)
    /\ viewport = Renderer
    /\ calls = << >>
    /\ raised = FALSE
    /\ editor = GradientEditor
    /\ heap = NoEngines

NextShared ==
    \/ NewWalkerSystem
    \/ \E p \in SharedParams : NewWalkerSystemWith(p)
    \/ \E e \in DOMAIN heap.instances : \E x \in Counts : setCountOf(e, x)
    \/ \E e \in DOMAIN heap.instances : \E x \in IterationCounts :
           setIterationsOf(e, x)

SpecShared == InitShared /\ [][NextShared]_vars

\* =================================================================== C1
Stages ==
    <<"generate_start_pos", "generate_relation_mask",
      "generate_relation_matrix", "compute_pos">>

\* the stages from the k-th on
StagesFrom(k) == SubSeq(Stages, k, Len(Stages))

IsPrefix(a, b) == Len(a) <= Len(b) /\ a = SubSeq(b, 1, Len(a))

\* the slot entered the k-th stage first, then the later ones in order, and
\* all of them when no exception cut it short
RanFrom(k) ==
    /\ calls' /= << >>
    /\ IsPrefix(calls', StagesFrom(k))
    /\ ~raised' => calls' = StagesFrom(k)

\* The interface alone, its slots grouped by the stage they start from;
\* the inputs are drawn from two values each at most.
FromStartPos ==
    \/ \E x \in Counts : setCount(x)
    \/ \E t \in ClockValues : reseedStartPos(t)

FromRelMask ==
    \/ \E x \in {ONE_TO_ONE, SPARSE} : setRelModel(x)
    \/ \E t \in ClockValues : reseedRelMask(t)

FromRelMatrix ==
    \/ \E x \in {MaxRelAvg} : setRelAvg(x)
    \/ \E x \in RelVars : setRelVar(x)
    \/ \E t \in ClockValues : reseedRelMatrix(t)

FromPos ==
    \/ \E x \in {MaxSpread} : setSpread(x)
    \/ \E x \in {MaxIterations} : setIterations(x)
    \/ \E x \in {POSITION, NEWTON} : setInterLaw(x)

NextSlots ==
    \/ FromStartPos
    \/ FromRelMask
    \/ FromRelMatrix
    \/ FromPos

SpecSlots == Init /\ [][NextSlots]_vars

\* C1: every mutator of the interface enters its own stage and then every
\* later stage, in the order start positions, mask, matrix, positions, and
\* no earlier stage: setCount and reseedStartPos run all four; setRelModel
\* and reseedRelMask run mask, matrix and positions; setRelAvg, setRelVar
\* and reseedRelMatrix run matrix and positions; setSpread, setIterations
\* and setInterLaw run compute_pos alone.  The outputs of the stages before
\* the mutator's own are left as they were.  (A slot that raises stops at
\* the stage that raised.)
C1_StagesRerun ==
    [][/\ FromStartPos => RanFrom(1)
       /\ FromRelMask =>
            /\ RanFrom(2)
            /\ system'.start_pos = system.start_pos
       /\ FromRelMatrix =>
            /\ RanFrom(3)
            /\ system'.start_pos = system.start_pos
            /\ system'.rel_mask = system.rel_mask
       /\ FromPos =>
            /\ RanFrom(4)
            /\ system'.start_pos = system.start_pos
            /\ system'.rel_mask = system.rel_mask
            /\ system'.rel_matrix = system.rel_matrix]_vars

\* a mutator of each of the four kinds has returned normally
C1_Witness ==
    /\ ~raised
    /\ calls = StagesFrom(3)
    /\ system.positions /= None
    /\ system.params.rel_var /= DefaultParams.rel_var

\* =================================================================== C2
\* the four stages run in order on a newly constructed engine that has the
\* parameters and the three seeds of sys
FreshRun(sys) ==
    LET new == [params |-> sys.params,
                rngs |-> [start_pos |-> SeedableRNG(sys.rngs.start_pos.seed),
                          rel_mask |-> SeedableRNG(sys.rngs.rel_mask.seed),
                          rel_matrix |-> SeedableRNG(sys.rngs.rel_matrix.seed)],
                rel_mask |-> None, rel_matrix |-> None,
                start_pos |-> None, positions |-> None]
    IN compute_pos(generate_relation_matrix(generate_relation_mask(
           generate_start_pos([Here EXCEPT !.system = new])))).system

\* C2: once the four stages have all run (positions is set), the outputs
\* of the engine are, after every sequence of mutators, those of a fresh
\* run of the four stages with the current parameters and seeds.
C2_EqualsFreshRun ==
    system.positions /= None =>
        LET fresh == FreshRun(system)
        IN /\ system.start_pos = fresh.start_pos
           /\ system.rel_mask = fresh.rel_mask
           /\ system.rel_matrix = fresh.rel_matrix
           /\ system.positions = fresh.positions

\* a partial recomputation (mask, matrix, positions) has just returned on
\* an engine whose three seeds and parameters have all been changed
C2_Witness ==
    /\ ~raised
    /\ calls = StagesFrom(2)
    /\ system.positions /= None
    /\ system.rngs.start_pos.seed \in ClockValues
    /\ system.rngs.rel_matrix.seed \in ClockValues
    /\ system.params.rel_model = SPARSE
    /\ system.params.count /= DefaultParams.count
    /\ system.params.rel_var /= DefaultParams.rel_var
    /\ system.params.inter_law = NEWTON

C4_ReseedFrame ==
    [][/\ (\E t \in ClockValues : reseedStartPos(t)) =>
            /\ system'.params = system.params
            /\ system'.rngs.rel_mask.seed = system.rngs.rel_mask.seed
            /\ system'.rngs.rel_matrix.seed = system.rngs.rel_matrix.seed
       /\ (\E t \in ClockValues : reseedRelMask(t)) =>
            /\ system'.params = system.params
            /\ system'.rngs.start_pos.seed = system.rngs.start_pos.seed
            /\ system'.rngs.rel_matrix.seed = system.rngs.rel_matrix.seed
       /\ (\E t \in ClockValues : reseedRelMatrix(t)) =>
            /\ system'.params = system.params
            /\ system'.rngs.start_pos.seed = system.rngs.start_pos.seed
            /\ system'.rngs.rel_mask.seed = system.rngs.rel_mask.seed]_vars

\* the start positions stream alone has been reseeded, and the later
\* stages have run on the two streams that still have their first seeds
C4_Witness ==
    /\ ~raised
    /\ calls = Stages
    /\ system.rngs.start_pos.seed \in ClockValues
    /\ system.rngs.rel_mask.seed = 1
    /\ system.rngs.rel_matrix.seed = 2
    /\ system.params.rel_model = SPARSE

\* =================================================================== C6
\* C6: after every sequence of mutators the relation matrix is zero
\* wherever the current relation mask is false.
C6_MatrixMasked ==
    (system.rel_mask /= None /\ system.rel_matrix /= None) =>
        LET mask == Val(system.rel_mask)
            matrix == Val(system.rel_matrix)
        IN /\ DOMAIN matrix = DOMAIN mask
           /\ \A i \in DOMAIN mask : \A j \in DOMAIN mask[i] :
                  ~mask[i][j] => matrix[i][j] = 0

\* a mask with a false entry off the diagonal and a true one, paired with
\* a matrix that is not zero
C6_Witness ==
    /\ system.rel_mask /= None /\ system.rel_matrix /= None
    /\ system.positions /= None
    /\ LET mask == Val(system.rel_mask)
           matrix == Val(system.rel_matrix)
       IN /\ \E i, j \in DOMAIN mask : i /= j /\ ~mask[i][j]
          /\ \E i, j \in DOMAIN mask : mask[i][j] /\ matrix[i][j] /= 0

\* =================================================================== C5
\* render_frame issued a draw call in the last frame
DrawIssued ==
    \E k \in DOMAIN calls : calls[k] \in {"rings.render", "edges.render"}

\* the buffers hold the geometry of the current position history,
\* close_rings flag and rings gradient
BuffersCurrent ==
    /\ ~BuffersRaise(system.positions, viewport.params)
    /\ LET b == Buffers(system.positions, viewport.params)
       IN viewport.vbos = b.vbos /\ viewport.ibos = b.ibos

\* C5: whenever render_frame issues a draw call the buffers are the
\* geometry of the current inputs; the flag is down only while they are;
\* and nothing but compute_vertex_buffers takes the flag down.
C5_DrawsCurrentGeometry ==
    /\ [](DrawIssued => BuffersCurrent)
    /\ [](~viewport.needs_vbo_update => BuffersCurrent)
    /\ [][(viewport.needs_vbo_update /\ ~viewport'.needs_vbo_update) =>
            \E k \in DOMAIN calls' : calls'[k] = "compute_vertex_buffers"]_vars

\* a frame that rebuilt the buffers and drew both arrays, after the rings
\* were opened, a stop of the gradient recolored and the history recomputed
C5_Witness ==
    /\ calls = <<"compute_vertex_buffers", "rings.render", "edges.render">>
    /\ ~viewport.params.close_rings
    /\ viewport.params.rings_gradient /= BLACK_TO_RED
    /\ system.params.iterations /= DefaultParams.iterations
    /\ system.params.count = MaxFrameCount

\* =================================================================== C7
\* C7: for every relation model, count and seed, the mask produced by
\* generate_relation_mask is a count x count array whose diagonal is false.
C7_DiagonalFalse ==
    system.rel_mask /= None =>
        /\ DOMAIN Val(system.rel_mask) = Walkers(system.params.count)
        /\ \A i \in Walkers(system.params.count) : ~Val(system.rel_mask)[i][i]

\* a sparse mask of three walkers with a relation in it, one of whose
\* diagonal samples passed the density test before the diagonal was filled
C7_Witness ==
    /\ system.rel_mask /= None
    /\ system.params.rel_model = SPARSE
    /\ system.params.count = MaxRunCount
    /\ \E i, j \in Walkers(MaxRunCount) : Val(system.rel_mask)[i][j]
    /\ LET n == system.params.count
           r == random(default_rng(system.rngs.rel_mask.seed), n * n)
       IN \E i \in Walkers(n) : SparseTest(r.out[n * i + i], n)

\* =================================================================== C8
\* C8: for the one-to-one model and a count N >= 2, mask[i][j] is true
\* exactly when j = (i + 1) mod N, so every row has exactly one true entry.
C8_OneToOneSuccessor ==
    (/\ system.rel_mask /= None
     /\ system.params.rel_model = ONE_TO_ONE
     /\ system.params.count >= 2) =>
        LET n == system.params.count
            mask == Val(system.rel_mask)
        IN /\ \A i, j \in Walkers(n) : mask[i][j] <=> (j = (i + 1) % n)
           /\ \A i \in Walkers(n) : Cardinality({j \in Walkers(n) : mask[i][j]}) = 1

\* a one-to-one mask of three walkers, where the successor of a walker is
\* not also its predecessor: the last walker is related to the first
C8_Witness ==
    /\ system.rel_mask /= None
    /\ system.params.rel_model = ONE_TO_ONE
    /\ system.params.count = 3
    /\ Val(system.rel_mask)[2][0]
    /\ ~Val(system.rel_mask)[0][2]

\* =================================================================== C9
\* start_pos * spread
ScaledStart == [i \in DOMAIN Val(system.start_pos) |->
                    VScale(system.params.spread, Val(system.start_pos)[i])]

\* C9 as stated: after compute_pos, snapshot 0 equals start_pos exactly,
\* for every spread and every interaction law.
C9_SnapshotZeroIsStartPos ==
    (system.positions /= None /\ Len(Val(system.positions)) > 0) =>
        Val(system.positions)[1] = Val(system.start_pos)

\* C9 as amended: after compute_pos, snapshot 0 equals start_pos scaled by
\* spread, for every spread and every interaction law; no integration step
\* is applied before the first snapshot is recorded.
C9_SnapshotZeroIsScaledStart ==
    (system.positions /= None /\ Len(Val(system.positions)) > 0) =>
        Val(system.positions)[1] = ScaledStart

\* a history computed with a spread other than one under a force law,
\* whose first snapshot differs from start_pos and from the second snapshot
C9_Witness ==
    /\ system.positions /= None
    /\ system.params.spread = MaxSpread
    /\ system.params.inter_law = NEWTON_LINEAR
    /\ Len(Val(system.positions)) >= 2
    /\ Val(system.positions)[1] /= Val(system.start_pos)
    /\ Val(system.positions)[1] /= Val(system.positions)[2]

\* ================================================================== C10
\* the position and velocity after t passes of the loop body
RECURSIVE AfterSteps(_, _, _, _)
AfterSteps(law, rels, pv, t) ==
    IF t = 0 THEN pv ELSE Step(law, rels, AfterSteps(law, rels, pv, t - 1))

\* C10: compute_pos produces exactly `iterations` snapshots, and snapshot t
\* is the scaled start position after exactly t integration steps; the
\* update computed after the last snapshot is not in the history.
C10_SnapshotPerIteration ==
    system.positions /= None =>
        LET p == system.params
            pv0 == [pos |-> ScaledStart,
                    vel |-> [i \in DOMAIN Val(system.start_pos) |-> VZero]]
        IN /\ Len(Val(system.positions)) = p.iterations
           /\ \A t \in 0..(p.iterations - 1) :
                  Val(system.positions)[t + 1] =
                      AfterSteps(p.inter_law, Val(system.rel_matrix), pv0, t).pos

\* a history of the greatest length whose snapshots all differ, and whose
\* last snapshot is not a fixed point of the step
C10_Witness ==
    /\ system.positions /= None
    /\ system.params.iterations = MaxRunIterations
    /\ Len(Val(system.positions)) = MaxRunIterations
    /\ \A a, b \in 1..MaxRunIterations :
           a /= b => Val(system.positions)[a] /= Val(system.positions)[b]
    /\ LET p == system.params
           pv0 == [pos |-> ScaledStart,
                   vel |-> [i \in DOMAIN Val(system.start_pos) |-> VZero]]
       IN AfterSteps(p.inter_law, Val(system.rel_matrix), pv0, MaxRunIterations).pos
              /= Val(system.positions)[MaxRunIterations]

\* ================================================================== C11
\* the sum of the numbers f[j], j in the finite set S
RECURSIVE Sum(_, _)
Sum(f, S) ==
    IF S = {} THEN 0
    ELSE LET j == CHOOSE k \in S : TRUE IN f[j] + Sum(f, S \ {j})

\* C11: under the Position law each step adds to walker i's position the
\* sum over j of rel[i][j] * pos[j], minus pos[i] times the sum over j of
\* rel[i][j], for every walker and every relation matrix.
C11_PositionLaw ==
    (system.positions /= None /\ system.params.inter_law = POSITION) =>
        LET hist == Val(system.positions)
            rel == Val(system.rel_matrix)
            W == Walkers(system.params.count)
        IN \A t \in 1..(Len(hist) - 1) : \A i \in W : \A x \in Axes :
               hist[t + 1][i][x] - hist[t][i][x] =
                   Sum([j \in W |-> rel[i][j] * hist[t][j][x]], W)
                       - hist[t][i][x] * Sum([j \in W |-> rel[i][j]], W)

\* a Position-law history of two walkers that moves, under a matrix that
\* is not symmetric and has a weight on its diagonal
C11_Witness ==
    /\ system.positions /= None
    /\ system.params.inter_law = POSITION
    /\ system.params.count = 2
    /\ Val(system.rel_matrix)[0][1] /= Val(system.rel_matrix)[1][0]
    /\ Val(system.rel_matrix)[0][0] /= 0
    /\ Val(system.positions)[2] /= Val(system.positions)[1]
    /\ Val(system.positions)[3] /= Val(system.positions)[2]

\* ================================================================== C12
\* C12 as stated: under the Asymmetry law each step adds to walker i's
\* position the sum over j of rel[i][j] * pos[j], minus pos[i] times the
\* sum over j of rel[j][i].
C12_AsymetryOwnPosition ==
    (system.positions /= None /\ system.params.inter_law = ASYMETRY) =>
        LET hist == Val(system.positions)
            rel == Val(system.rel_matrix)
            W == Walkers(system.params.count)
        IN \A t \in 1..(Len(hist) - 1) : \A i \in W : \A x \in Axes :
               hist[t + 1][i][x] - hist[t][i][x] =
                   Sum([j \in W |-> rel[i][j] * hist[t][j][x]], W)
                       - hist[t][i][x] * Sum([j \in W |-> rel[j][i]], W)

\* C12 as amended: under the Asymmetry law each step adds to walker i's
\* position the sum over j of rel[i][j] * pos[j], minus the sum over j of
\* rel[j][i] * pos[j]: the transposed weights are applied to the other
\* walkers' positions, not to walker i's own.
C12_AsymetryLaw ==
    (system.positions /= None /\ system.params.inter_law = ASYMETRY) =>
        LET hist == Val(system.positions)
            rel == Val(system.rel_matrix)
            W == Walkers(system.params.count)
        IN \A t \in 1..(Len(hist) - 1) : \A i \in W : \A x \in Axes :
               hist[t + 1][i][x] - hist[t][i][x] =
                   Sum([j \in W |-> rel[i][j] * hist[t][j][x]], W)
                       - Sum([j \in W |-> rel[j][i] * hist[t][j][x]], W)

\* an Asymmetry-law history of two walkers at different places that
\* moves, under a matrix that is not symmetric
C12_Witness ==
    /\ system.positions /= None
    /\ system.params.inter_law = ASYMETRY
    /\ system.params.count = 2
    /\ Val(system.rel_matrix)[0][1] /= Val(system.rel_matrix)[1][0]
    /\ Val(system.start_pos)[0] /= Val(system.start_pos)[1]
    /\ Val(system.positions)[2] /= Val(system.positions)[1]

\* ================================================================== C13
\* rel[i][j] = rel[j][i] for all i, j
Symmetric(rel) == \A i, j \in DOMAIN rel : rel[i][j] = rel[j][i]

\* C13: under the Asymmetry law a symmetric relation matrix leaves every
\* walker where it is at every step: all snapshots equal snapshot 0.
C13_SymmetricStill ==
    (/\ system.positions /= None
     /\ system.params.inter_law = ASYMETRY
     /\ Symmetric(Val(system.rel_matrix))) =>
        \A t \in 1..Len(Val(system.positions)) :
            Val(system.positions)[t] = Val(system.positions)[1]

\* a history under a symmetric matrix with nonzero weights between two
\* walkers at different places, which the Position law would move
C13_Witness ==
    /\ system.positions /= None
    /\ system.params.inter_law = ASYMETRY
    /\ system.params.count = 2
    /\ Symmetric(Val(system.rel_matrix))
    /\ Val(system.rel_matrix)[0][1] /= 0
    /\ Val(system.start_pos)[0] /= Val(system.start_pos)[1]
    /\ Len(Val(system.positions)) = MaxLawIterations
    /\ PositionStep(Val(system.rel_matrix), Val(system.positions)[1])
           /= Val(system.positions)[1]

\* ================================================================== C14
\* no component of the array of vectors a is NaN
Finite(a) == \A i \in DOMAIN a : \A x \in Axes : a[i][x] /= NaN

\* the walkers j at a nonzero distance of walker i
Apart(pos, i) == {j \in DOMAIN pos : norm(VSub(pos[j], pos[i])) /= 0}

\* C14: under the Newton laws no snapshot holds a NaN, and the first
\* step moves walker i by the weighted forces of the walkers at a nonzero
\* distance alone: a pair at distance zero (a walker and itself, two
\* walkers at one place) contributes nothing.
C14_ZeroDistanceZeroForce ==
    (system.positions /= None /\ system.params.inter_law \in {NEWTON_LINEAR, NEWTON}) =>
        LET hist == Val(system.positions)
            rel == Val(system.rel_matrix)
            deg == IF system.params.inter_law = NEWTON THEN 2 ELSE 1
            p0 == hist[1]
        IN /\ \A t \in 1..Len(hist) : Finite(hist[t])
           /\ \A i \in DOMAIN p0 : \A x \in Axes :
                  hist[2][i][x] - p0[i][x] =
                      Sum([j \in DOMAIN p0 |->
                             IF j \in Apart(p0, i)
                             THEN TruncDiv(
                                      rel[i][j] * OverPower(
                                          ForceConstant * (p0[j][x] - p0[i][x]),
                                          norm(VSub(p0[j], p0[i])), deg + 1),
                                      DampingDivisor)
                             ELSE 0],
                          DOMAIN p0)

\* a Newton history of two walkers at one place with nonzero weights
\* between them and on the diagonal
C14_Witness ==
    /\ system.positions /= None
    /\ system.params.inter_law = NEWTON
    /\ system.params.count = 2
    /\ Val(system.start_pos)[0] = Val(system.start_pos)[1]
    /\ Val(system.rel_matrix)[0][1] /= 0
    /\ Val(system.rel_matrix)[0][0] /= 0
    /\ Len(Val(system.positions)) = MaxLawIterations
    /\ Finite(Val(system.positions)[MaxLawIterations])

\* ================================================================== C15
\* the sequences compute_vertex_buffers hands to adjacent_lines_indexes:
\* the vertices of every ring, then of every edge
RingInputs ==
    LET n == system.params.count
        cs == chunks(system.params.iterations * n, n)
    IN [c \in DOMAIN cs |-> RingVerts(cs[c], viewport.params.close_rings)]

EdgeInputs ==
    LET n == system.params.count
    IN [w \in 1..n |-> EdgeVerts(w - 1, system.params.iterations * n, n)]

\* group g = 0..k-2 that C15 states for the input sequence in of length k
LineGroup(in, g) ==
    LET k == Len(in)
        Max0(a) == IF a < 0 THEN 0 ELSE a
        MinK(a) == IF a > k - 1 THEN k - 1 ELSE a
    IN <<in[Max0(g - 1) + 1], in[g + 1], in[g + 2], in[MinK(g + 2) + 1]>>

\* out holds, from offset off on, the 4*(k-1) indices of the groups of in
HoldsGroups(out, off, in) ==
    \A g \in 0..(Len(in) - 2) :
        SubSeq(out, off + 4 * g + 1, off + 4 * g + 4) = LineGroup(in, g)

\* the frame has built the buffers
BuffersBuilt ==
    /\ ~raised
    /\ \E k \in DOMAIN calls : calls[k] = "compute_vertex_buffers"

\* C15: for every sequence of k >= 2 vertices that is handed to
\* adjacent_lines_indexes (every ring, every edge) the buffer receives
\* exactly 4*(k-1) indices, whose g-th group of four is
\* (in[max(g-1,0)], in[g], in[g+1], in[min(g+2,k-1)]).
C15_AdjacentGroups ==
    BuffersBuilt =>
        LET rings == RingInputs
            edges == EdgeInputs
            kr == IF rings = << >> THEN 0 ELSE Len(rings[1])
            ke == IF Len(edges) = 0 \/ Len(edges[1]) < 2 THEN 0 ELSE Len(edges[1])
        IN /\ Len(viewport.ibos.rings) = Len(rings) * 4 * (kr - 1)
           /\ \A r \in DOMAIN rings :
                  HoldsGroups(viewport.ibos.rings, (r - 1) * 4 * (kr - 1), rings[r])
           /\ ke >= 2 =>
                  /\ Len(viewport.ibos.edges) = Len(edges) * 4 * (ke - 1)
                  /\ \A e \in DOMAIN edges :
                         HoldsGroups(viewport.ibos.edges, (e - 1) * 4 * (ke - 1), edges[e])

\* the example of the docstring: one open ring (0, 1, 2, 3)
C15_Witness ==
    /\ BuffersBuilt
    /\ ~viewport.params.close_rings
    /\ system.params.count = 4 /\ system.params.iterations = 1
    /\ viewport.ibos.rings = <<0, 0, 1, 2,  0, 1, 2, 3,  1, 2, 3, 3>>

\* ================================================================== C16
\* the windows of four of the sequence seq, one after the other
RECURSIVE Windows(_)
Windows(seq) ==
    IF Len(seq) < 4 THEN << >>
    ELSE SubSeq(seq, 1, 4) \o Windows(Tail(seq))

\* the indices the buffer holds for ring r
RingSlice(r) ==
    LET per == Len(viewport.ibos.rings) \div (system.params.iterations)
    IN SubSeq(viewport.ibos.rings, (r - 1) * per + 1, r * per)

\* the chunk of ring r: the vertices of snapshot r - 1
RingChunk(r) ==
    chunks(system.params.iterations * system.params.count, system.params.count)[r]

\* C16 as stated: with close_rings set the windows are taken over
\* (v0, v0, v1, ..., v(n-1), v0).
C16_ClosedRingPaddedOnce ==
    (BuffersBuilt /\ viewport.params.close_rings /\ system.params.count >= 1) =>
        \A r \in 1..system.params.iterations :
            LET c == RingChunk(r)
            IN RingSlice(r) = Windows(<<c[1]>> \o c \o <<c[1]>>)

\* C16 as amended: with close_rings set the windows are taken over
\* (v0, v0, v1, ..., v(n-1), v0, v0): the chunk closed on its first
\* vertex, then padded with its first and its last element.
C16_ClosedRingPadded ==
    (BuffersBuilt /\ viewport.params.close_rings /\ system.params.count >= 1) =>
        \A r \in 1..system.params.iterations :
            LET c == RingChunk(r)
            IN RingSlice(r) = Windows(<<c[1]>> \o c \o <<c[1], c[1]>>)

\* closed rings of three walkers, the second ring being (3, 4, 5)
C16_Witness ==
    /\ BuffersBuilt
    /\ viewport.params.close_rings
    /\ system.params.count = 3 /\ system.params.iterations >= 2
    /\ RingSlice(2) = <<3, 3, 4, 5,  3, 4, 5, 3,  4, 5, 3, 3>>

\* ================================================================== C17
\* compute_vertex_buffers has been entered in this frame
BuffersEntered == \E k \in DOMAIN calls : calls[k] = "compute_vertex_buffers"

\* C17: when count < 2, compute_vertex_buffers completes without raising
\* and writes no ring index, for both values of close_rings.
C17_SmallRingsSkipped ==
    (BuffersEntered /\ system.params.count < 2) =>
        ~raised /\ viewport.ibos.rings = << >>

\* ================================================================== C18
\* C18: with iterations = 1 and count >= 1, for both values of
\* close_rings, compute_vertex_buffers writes an empty edges index buffer
\* and a non-empty rings index buffer.
C18_OneIterationNoEdges ==
    (BuffersEntered /\ system.params.iterations = 1 /\ system.params.count >= 1) =>
        /\ ~raised
        /\ viewport.ibos.edges = << >>
        /\ viewport.ibos.rings /= << >>

\* ================================================================== C19
\* the channels of the colors a and b differ by at most one
NearColor(a, b) ==
    /\ Len(a) = Len(b)
    /\ \A c \in 1..Len(a) : a[c] - b[c] \in {0 - 1, 0, 1}

\* C19: for a gradient with stops at 0 and 1, generate(N) with N >= 2
\* gives the first stop's color at index 0 and the last stop's color at
\* index N - 1, up to rounding.
C19_GradientEndpoints ==
    (BuffersBuilt /\ system.params.iterations * system.params.count >= 2) =>
        LET g == viewport.params.rings_gradient
            N == system.params.iterations * system.params.count
        IN /\ NearColor(viewport.vbos.rings_colors[0], g[0])
           /\ NearColor(viewport.vbos.rings_colors[N - 1], g[KeyUnit])

\* ================================================================== C20
\* C20: a mutation with an invalid value (count < 1, negative iterations,
\* a color stop whose channel count differs from the other stops') fails
\* at that call and leaves the parameters, the stage outputs and the
\* gradient as they were.
C20_InvalidRejected ==
    [][(SetBadCount \/ SetBadIterations \/ SetBadColorStop) =>
           /\ raised'
           /\ system' = system
           /\ viewport'.params.rings_gradient = viewport.params.rings_gradient]_vars

\* ================================================================== C21
\* diff_array applied to the array of numbers a
diff_array_scalars(a) ==
    LET operands == TiledOperands(a)
    IN [i \in DOMAIN operands |->
           [j \in DOMAIN operands[i] |->
               Minus(operands[i][j][1], operands[i][j][2])]]

\* for points: d[i][j] = a[j] - a[i], with a zero diagonal and
\* d[i][j] = -d[j][i]
IsDifferences(d, a) ==
    /\ DOMAIN d = DOMAIN a
    /\ \A i, j \in DOMAIN a :
           /\ d[i][j] = VSub(a[j], a[i])
           /\ d[i][i] = VZero
           /\ d[i][j] = VSub(VZero, d[j][i])

\* the same for numbers
IsDifferencesOfNumbers(d, a) ==
    /\ DOMAIN d = DOMAIN a
    /\ \A i, j \in DOMAIN a :
           /\ d[i][j] = Minus(a[j], a[i])
           /\ d[i][i] = 0
           /\ d[i][j] = Minus(0, d[j][i])

\* C21: for every array a, of points or of numbers, diff_array(a)[i][j]
\* is a[j] - a[i]; its diagonal is zero and it is antisymmetric. The
\* arrays are the snapshots the force laws hand to diff_array, and their
\* coordinates along each axis.
C21_DiffArray ==
    (system.positions /= None
        /\ system.params.inter_law \in {VELOCITY, NEWTON_LINEAR, NEWTON}) =>
        \A t \in 1..Len(Val(system.positions)) :
            LET a == Val(system.positions)[t]
            IN /\ IsDifferences(diff_array(a), a)
               /\ \A x \in Axes :
                      LET c == [i \in DOMAIN a |-> a[i][x]]
                      IN IsDifferencesOfNumbers(diff_array_scalars(c), c)

\* a force-law history of two walkers that start at different places
C21_Witness ==
    /\ system.positions /= None
    /\ system.params.inter_law = NEWTON_LINEAR
    /\ system.params.count = 2
    /\ Val(system.positions)[1][0] /= Val(system.positions)[1][1]
    /\ diff_array(Val(system.positions)[1])[0][1] /= VZero

\* ================================================================== C22
\* the positions asked of a gradient: every stop position and one
\* position beyond each end of [0, 1]
AskedPositions == (0 - 1)..(KeyUnit + 1)

\* the stop with the greatest key at or before pos, None without one
GreatestAtOrBefore(gradient, pos) ==
    LET K == {k \in DOMAIN gradient : k <= pos}
    IN IF K = {} THEN None ELSE Some(<<MaxKey(K), gradient[MaxKey(K)]>>)

\* C22: for every gradient and every position, previous_stop returns the
\* stop with the greatest key at or before the position when there is one,
\* and None when no stop lies at or before the position.
C22_PreviousStop ==
    \A pos \in AskedPositions :
        previous_stop(viewport.params.rings_gradient, pos) =
            GreatestAtOrBefore(viewport.params.rings_gradient, pos)

\* ================================================================== C23
EmptyGradient == << >>

\* C23: nearest_stop returns None exactly when the gradient is empty;
\* on a gradient with stops it returns, for every position (also below the
\* first and above the last stop), a stop of the gradient whose key is
\* at the least distance from the position.
C23_NearestStop ==
    LET g == viewport.params.rings_gradient
    IN \A pos \in AskedPositions :
           /\ nearest_stop(EmptyGradient, pos) = None
           /\ DOMAIN g /= {} =>
                  /\ nearest_stop(g, pos) /= None
                  /\ LET stop == Val(nearest_stop(g, pos))
                     IN /\ stop[1] \in DOMAIN g
                        /\ stop[2] = g[stop[1]]
                        /\ \A k \in DOMAIN g :
                               Distance(stop[1], pos) <= Distance(k, pos)

\* the editor has moved the first stop away from 0, and the stop nearest
\* to a position below it is that first stop
C23_Witness ==
    LET g == viewport.params.rings_gradient
    IN /\ Cardinality(DOMAIN g) >= 2
       /\ MinKey(DOMAIN g) > 0
       /\ editor.selectedPos /= None
       /\ nearest_stop(g, 0) = Some(<<MinKey(DOMAIN g), g[MinKey(DOMAIN g)]>>)

\* ================================================================== C30
\* C30: from a gradient of at least two four-channel stops with keys in
\* [0, 1], after any sequence of editor operations the gradient has a
\* stop, every key is in [0, 1] and every stop has four channels, so the
\* assertions of channels and generate hold.
C30_EditedGradient ==
    LET g == viewport.params.rings_gradient
    IN /\ DOMAIN g /= {}
       /\ \A k \in DOMAIN g : 0 <= k /\ k <= KeyUnit /\ Len(g[k]) = 4
       /\ UniformChannels(g)
       /\ ~GenerateRaises(g)

\* a stop was moved onto the only other stop: one stop is left
C30_Witness ==
    /\ Cardinality(DOMAIN viewport.params.rings_gradient) = 1
    /\ editor.selectedPos /= None
    /\ ~raised

\* ================================================================== C24
\* C24: of two engines both constructed without a params argument, a
\* parameter changed through the interface of one never changes the
\* parameters the other sees.
C24_ExclusiveParams ==
    [][\A a, b \in DOMAIN heap.instances :
           (/\ a /= b
            /\ heap.instances[a].system.params = DefaultParamsAt
            /\ heap.instances[b].system.params = DefaultParamsAt
            /\ heap'.caller = a
            /\ DOMAIN heap'.instances = DOMAIN heap.instances)
           => ParamsSeen(heap', b) = ParamsSeen(heap, b)]_vars

\* ================================================================== C25
ForceLaws == {VELOCITY, NEWTON_LINEAR, NEWTON}

\* the force on walker i from walker j at the positions pos: the vector
\* from i to j, under the Newton laws times 10**4 / d**(deg+1) and zero at
\* distance zero
ForceFromTo(law, pos, i, j) ==
    LET d == VSub(pos[j], pos[i])
    IN IF law = VELOCITY THEN d
       ELSE [x \in Axes |->
                nan_to_num(ForceOverNorm(d[x], norm(d), IF law = NEWTON THEN 2 ELSE 1))]

\* 0.1 times the sum over j of rel[i][j] * force[i][j]
Acceleration(law, rel, pos, i) ==
    VSum([j \in DOMAIN pos |->
            [x \in Axes |->
                TruncDiv(Times(rel[i][j], ForceFromTo(law, pos, i, j)[x]),
                         DampingDivisor)]],
         DOMAIN pos)

\* the velocity with which snapshot t was reached: zero for the first
VelocityInto(hist, t, i) ==
    IF t = 1 THEN VZero ELSE VSub(hist[t][i], hist[t - 1][i])

\* C25: under the force laws the velocity is zero when compute_pos starts
\* and is carried from step to step: at every step the velocity of walker
\* i grows by 0.1 times the sum over j of rel[i][j] * force[i][j], force[i][j]
\* pointing from walker i to walker j, and the position then grows by the
\* velocity.
C25_VelocityCarried ==
    (system.positions /= None /\ system.params.inter_law \in ForceLaws) =>
        LET hist == Val(system.positions)
            rel == Val(system.rel_matrix)
        IN \A t \in 1..(Len(hist) - 1) : \A i \in DOMAIN hist[t] :
               hist[t + 1][i] =
                   VAdd(hist[t][i],
                        VAdd(VelocityInto(hist, t, i),
                             Acceleration(system.params.inter_law, rel, hist[t], i)))

\* a history under a force law in which a walker keeps moving at a step
\* where the forces on it add nothing to its velocity
C25_Witness ==
    /\ system.positions /= None
    /\ system.params.inter_law \in ForceLaws
    /\ LET hist == Val(system.positions)
           rel == Val(system.rel_matrix)
       IN /\ Len(hist) = MaxLawIterations
          /\ \E i \in DOMAIN hist[1] :
                 /\ hist[2][i] /= hist[1][i]
                 /\ Acceleration(system.params.inter_law, rel, hist[2], i) = VZero
                 /\ hist[3][i] /= hist[2][i]

\* ================================================================== C26
\* the strip of walker i: i, i + count, ..., i + (iterations - 1) * count
WalkerStrip(i) ==
    [k \in 1..system.params.iterations |-> i + (k - 1) * system.params.count]

\* the edges buffer holds the adjacency groups of every walker's strip and
\* nothing else, the strip of walker i being its successive positions in
\* the position buffer, and every group stays with one walker
EdgeStripsHeld ==
    LET n == system.params.count
        it == system.params.iterations
        out == viewport.ibos.edges
    IN /\ Len(out) = 4 * n * (it - 1)
       /\ \A i \in 0..(n - 1) :
              /\ HoldsGroups(out, i * 4 * (it - 1), WalkerStrip(i))
              /\ \A k \in 1..it :
                     viewport.vbos.pos[WalkerStrip(i)[k]] = Val(system.positions)[k][i]
       /\ \A g \in 0..((Len(out) \div 4) - 1) :
              \A a, b \in 1..4 : out[4 * g + a] % n = out[4 * g + b] % n

\* C26: for iterations >= 2 and every walker i of the count walkers, the
\* edges index buffer holds the adjacency groups of the strip
\* (i, i + count, ..., i + (iterations - 1) * count), the successive
\* positions of walker i in the position buffer; it holds
\* 4 * count * (iterations - 1) indices and no group joins two walkers.
C26_EdgeStrips ==
    (BuffersEntered /\ system.params.iterations >= 2) =>
        ~raised /\ EdgeStripsHeld

\* ================================================================== C27
\* every index of the buffer out is the index of a vertex
IndexesInRange(out) ==
    \A k \in DOMAIN out :
        0 <= out[k] /\ out[k] < system.params.iterations * system.params.count

\* C27: for iterations >= 1, count >= 2 and both values of close_rings,
\* every index of the rings and edges index buffers lies in
\* [0, iterations * count), and the four indices of every rings group
\* are vertices of one ring, the same chunk of count vertices.
C27_IndexesWithinRings ==
    (BuffersEntered /\ system.params.iterations >= 1 /\ system.params.count >= 2) =>
        /\ ~raised
        /\ IndexesInRange(viewport.ibos.rings)
        /\ IndexesInRange(viewport.ibos.edges)
        /\ \A g \in 0..((Len(viewport.ibos.rings) \div 4) - 1) :
               \A a, b \in 1..4 :
                   viewport.ibos.rings[4 * g + a] \div system.params.count
                       = viewport.ibos.rings[4 * g + b] \div system.params.count

\* closed rings of three walkers over several iterations: the last group
\* of the last ring closes on that ring's first vertex, and the edges
\* reach the last vertex
C27_Witness ==
    /\ BuffersBuilt
    /\ viewport.params.close_rings
    /\ system.params.count = 3 /\ system.params.iterations = MaxBufIterations
    /\ LET N == system.params.iterations * system.params.count
           L == Len(viewport.ibos.rings)
       IN /\ SubSeq(viewport.ibos.rings, L - 3, L) = <<N - 2, N - 1, N - 3, N - 3>>
          /\ viewport.ibos.edges[Len(viewport.ibos.edges)] = N - 1

\* ================================================================== C28
\* the snapshots recorded by the first t passes are those of a run of t
\* passes: no later pass has altered them
SnapshotsKept(positions) ==
    positions /= None =>
        LET pv0 == [pos |-> ScaledStart,
                    vel |-> [i \in DOMAIN Val(system.start_pos) |-> VZero]]
        IN \A t \in 1..Len(Val(positions)) :
               SubSeq(Val(positions), 1, t) =
                   Integrate(system.params.inter_law, Val(system.rel_matrix),
                             pv0, t, << >>)

\* C28: under every interaction law compute_pos leaves start_pos,
\* rel_mask, rel_matrix, the seeds and the parameters as they were, and a
\* snapshot recorded in the history is not altered by the in-place
\* updates of the later steps.
C28_ComputePosFrame ==
    [][LawComputePos =>
           /\ system'.start_pos = system.start_pos
           /\ system'.rel_mask = system.rel_mask
           /\ system'.rel_matrix = system.rel_matrix
           /\ system'.rngs = system.rngs
           /\ system'.params = system.params
           /\ SnapshotsKept(system'.positions)]_vars

\* a history computed with spread 1 whose walkers have moved: the first
\* snapshot is start_pos, the last one is not
C28_Witness ==
    /\ system.positions /= None
    /\ system.params.spread = 1
    /\ Len(Val(system.positions)) = MaxLawIterations
    /\ Val(system.positions)[1] = Val(system.start_pos)
    /\ Val(system.positions)[MaxLawIterations] /= Val(system.start_pos)
    /\ Val(system.positions)[2] /= Val(system.positions)[MaxLawIterations]

\* ================================================================== C29
\* the slot has entered the engine method of this name
Entered(name) == \E k \in DOMAIN calls : calls[k] = name

\* C29: starting from a freshly constructed engine, whose stage outputs
\* are all unset, no sequence of mutator calls runs a stage while an output
\* it reads is unset: compute_pos never runs before start_pos and
\* rel_matrix have been generated, generate_relation_matrix never before
\* rel_mask has been generated. (A stage never unsets an output, so an
\* output that is unset after the slot was unset when the stage ran.)
C29_StagesInOrder ==
    /\ Entered("compute_pos") =>
           system.start_pos /= None /\ system.rel_matrix /= None
    /\ Entered("generate_relation_matrix") => system.rel_mask /= None

====
